---- MODULE Spec2Model ----
(***************************************************************************)
(* Traffic Light Simulation & Speed Suggestions (src/app.py, Objective 2). *)
(*                                                                         *)
(* One state of the model is one boundary of the `while car_x <= 1100`     *)
(* loop; the action Tick is one whole iteration of that loop.              *)
(*                                                                         *)
(* Arithmetic.  The sliders are modelled at multiples of 5 km/h.  For      *)
(* those values car_speed * 0.1 is a multiple of 0.5 and every float the   *)
(* loop computes from it is exact, so positions are kept as integers in    *)
(* tenths of a distance unit (car_x = 10 * the code's car_x) and eta is    *)
(* kept as the fraction num / den with                                     *)
(*     eta = distance / (car_speed * 0.1) = (10 * distance) / car_speed,   *)
(* den = 0 standing for float('inf').                                      *)
(***************************************************************************)
EXTENDS Integers, Sequences, FiniteSets, TLC

\* ------------------------------------------------------------------ bounds
\* number of loop iterations explored from the start of a run
MaxTick == 35
\* longest wall-clock duration of one iteration, in whole seconds
\* (time.sleep(1) plus rendering)
MaxTickSeconds == 2
\* phase-predictor input grid: distances 2.5, 5.0, ... , 2.5 * MaxDistSteps
MaxDistSteps == 80
MaxAdviceLen == 4
MaxRunTick == 1000
MaxSessionTick == 4
MaxRuns == 2

\* --------------------------------------------------------- program constants
Scale == 10
RouteLength == 1100
GreenDuration == 45
YellowDuration == 5
StopDistance == 40
ResumeSpeed == 15
SpeedStep == 5
DebounceSeconds == 5
StableRun == 2
PlanGreenFromRed == 45
PlanYellowFromRed == 50
PlanYellowFromGreen == 5
PlanRedFromGreen == 45
PlanRedFromYellow == 40
PlanGreenFromYellow == 85
RedMin == 30
RedMax == 60

None == "none"
NoTime == -1
NoValue == "-"
Inf == [num |-> 0, den |-> 0]

signal_labels == <<"B", "C", "D", "E", "F">>
signal_positions == <<150, 350, 550, 750, 950>>
Labels == {signal_labels[i] : i \in 1..Len(signal_labels)}
SignalX(lbl) ==
    LET i == CHOOSE j \in 1..Len(signal_labels) : signal_labels[j] = lbl
    IN  signal_positions[i] * Scale

Phases == {"red", "green", "yellow"}

\* slider triples <<sim_min_speed, sim_initial_speed, sim_max_speed>>; the
\* three sliders are independent, each over 10..60
Configs == { <<10, 25, 60>>, <<20, 60, 60>>, <<10, 10, 10>>, <<60, 25, 10>> }

\* values of random.randint(30, 60) explored for a new Red
RedDurations == {RedMin, RedMax}

\* values of random.choice / random.randint(10, 45) explored by
\* init_traffic_lights, per signal
InitSignal(lbl) ==
    CASE lbl = "B" -> { [phase |-> "red", timer |-> 10],
                        [phase |-> "red", timer |-> 27],
                        [phase |-> "green", timer |-> 45],
                        [phase |-> "yellow", timer |-> 5] }
      [] lbl = "C" -> { [phase |-> "red", timer |-> 45] }
      [] lbl = "D" -> { [phase |-> "yellow", timer |-> 5] }
      [] lbl = "E" -> { [phase |-> "green", timer |-> 10] }
      [] OTHER     -> { [phase |-> "red", timer |-> 10] }

VARIABLES
    sim_min_speed, sim_initial_speed, sim_max_speed,   \* sliders
    signal_states,                                     \* label -> [phase, timer]
    car_x, car_speed, waiting_at,                      \* the vehicle
    current_advice_obj2, advice_counter_obj2,          \* st.session_state
    prev_predicted_phase_obj2, last_voice_age,
    next_signal, distance, current_phase, eta,         \* last iteration's locals
    predicted_phase, stable_suggestion, voice_fired,
    voice_diff,              \* `diff` of line 33 as the last iteration saw it
    tick,                                              \* iterations executed
    run,                     \* runs of the script started in this session
    raw_history, stable_history    \* suggestions produced, oldest first

vars == << sim_min_speed, sim_initial_speed, sim_max_speed, signal_states,
           car_x, car_speed, waiting_at, current_advice_obj2,
           advice_counter_obj2, prev_predicted_phase_obj2, last_voice_age,
           next_signal, distance, current_phase, eta, predicted_phase,
           stable_suggestion, voice_fired, voice_diff, tick, run,
           raw_history, stable_history >>

Min(a, b) == IF a < b THEN a ELSE b
Max(a, b) == IF a > b THEN a ELSE b

\* ------------------------------------------------------------ signal update
\* variant: Green is followed by Red, Yellow is left out of the cycle
UpdateSignal_SkipYellow(sig, redDuration) ==
    LET t == sig.timer - 1 IN
    IF t <= 0
    THEN CASE sig.phase = "red"    -> [phase |-> "green", timer |-> GreenDuration]
           [] sig.phase = "green"  -> [phase |-> "red", timer |-> redDuration]
           [] sig.phase = "yellow" -> [phase |-> "red", timer |-> redDuration]
           [] OTHER                -> [sig EXCEPT !.timer = t]
    ELSE [sig EXCEPT !.timer = t]

\* variant: the `elif sig['phase'] == 'yellow'` branch is missing
UpdateSignal_NoYellowBranch(sig, redDuration) ==
    LET t == sig.timer - 1 IN
    IF t <= 0
    THEN CASE sig.phase = "red"    -> [phase |-> "green", timer |-> GreenDuration]
           [] sig.phase = "green"  -> [phase |-> "yellow", timer |-> YellowDuration]
           [] OTHER                -> [sig EXCEPT !.timer = t]
    ELSE [sig EXCEPT !.timer = t]

\* variant: an expired Red is followed by another Red
UpdateSignal_RedStays(sig, redDuration) ==
    LET t == sig.timer - 1 IN
    IF t <= 0
    THEN CASE sig.phase = "red"    -> [phase |-> "red", timer |-> GreenDuration]
           [] sig.phase = "green"  -> [phase |-> "yellow", timer |-> YellowDuration]
           [] sig.phase = "yellow" -> [phase |-> "red", timer |-> redDuration]
           [] OTHER                -> [sig EXCEPT !.timer = t]
    ELSE [sig EXCEPT !.timer = t]

\* lines 85-95: one signal, one iteration; redDuration is random.randint(30,60)
UpdateSignal(sig, redDuration) ==
    LET t == sig.timer - 1 IN
    IF t <= 0
    THEN CASE sig.phase = "red"    -> [phase |-> "green", timer |-> GreenDuration]
           [] sig.phase = "green"  -> [phase |-> "yellow", timer |-> YellowDuration]
           [] sig.phase = "yellow" -> [phase |-> "red", timer |-> redDuration]
           [] OTHER                -> [sig EXCEPT !.timer = t]
    ELSE [sig EXCEPT !.timer = t]

\* signals whose update draws random.randint(30, 60)
EnteringRed(states) ==
    { l \in Labels : states[l].phase = "yellow" /\ states[l].timer - 1 <= 0 }

\* ---------------------------------------------------------------- next signal
\* lines 98-102: first label in route order whose x is beyond the car
NextSignal(x) ==
    LET ahead == { i \in 1..Len(signal_labels) : SignalX(signal_labels[i]) > x }
    IN  IF ahead = {} THEN None
        ELSE signal_labels[CHOOSE i \in ahead : \A j \in ahead : i <= j]

\* -------------------------------------------------------------------- eta
\* variant: the quotient is formed whatever the speed; a denominator 0 with
\* a numerator stands for the division that fails
ComputeEta_NoGuard(dist, speed) == [num |-> dist, den |-> speed]

\* lines 114-117
ComputeEta(dist, speed) ==
    IF speed > 0 THEN [num |-> dist, den |-> speed] ELSE Inf

\* e <= k, for a float e that may be inf
EtaLeq(e, k) == e.den > 0 /\ e.num <= k * e.den

\* ------------------------------------------------------------ phase predictor
\* variant: the `if rem <= time_left` case is missing
PredictPhase_NoEarlyArrival(phase, time_left, e) ==
    IF phase = "red" THEN
        IF EtaLeq(e, time_left + PlanGreenFromRed) THEN "green"
        ELSE IF EtaLeq(e, time_left + PlanYellowFromRed) THEN "yellow"
        ELSE "red"
    ELSE IF phase = "green" THEN
        IF EtaLeq(e, time_left + PlanYellowFromGreen) THEN "yellow"
        ELSE IF EtaLeq(e, time_left + PlanRedFromGreen) THEN "red"
        ELSE "green"
    ELSE IF phase = "yellow" THEN
        IF EtaLeq(e, time_left + PlanRedFromYellow) THEN "red"
        ELSE IF EtaLeq(e, time_left + PlanGreenFromYellow) THEN "green"
        ELSE "yellow"
    ELSE NoValue

\* variant: from Green, the Red cut-off is 5 + 45 instead of 5 + 40
PredictPhase_LongRed(phase, time_left, e) ==
    IF EtaLeq(e, time_left) THEN phase
    ELSE IF phase = "red" THEN
        IF EtaLeq(e, time_left + PlanGreenFromRed) THEN "green"
        ELSE IF EtaLeq(e, time_left + PlanYellowFromRed) THEN "yellow"
        ELSE "red"
    ELSE IF phase = "green" THEN
        IF EtaLeq(e, time_left + PlanYellowFromGreen) THEN "yellow"
        ELSE IF EtaLeq(e, time_left + PlanYellowFromGreen + GreenDuration) THEN "red"
        ELSE "green"
    ELSE IF phase = "yellow" THEN
        IF EtaLeq(e, time_left + PlanRedFromYellow) THEN "red"
        ELSE IF EtaLeq(e, time_left + PlanGreenFromYellow) THEN "green"
        ELSE "yellow"
    ELSE NoValue

\* lines 120-148; after `rem -= time_left`, `rem <= k` is eta <= time_left + k
PredictPhase(phase, time_left, e) ==
    IF EtaLeq(e, time_left) THEN phase
    ELSE IF phase = "red" THEN
        IF EtaLeq(e, time_left + PlanGreenFromRed) THEN "green"
        ELSE IF EtaLeq(e, time_left + PlanYellowFromRed) THEN "yellow"
        ELSE "red"
    ELSE IF phase = "green" THEN
        IF EtaLeq(e, time_left + PlanYellowFromGreen) THEN "yellow"
        ELSE IF EtaLeq(e, time_left + PlanRedFromGreen) THEN "red"
        ELSE "green"
    ELSE IF phase = "yellow" THEN
        IF EtaLeq(e, time_left + PlanRedFromYellow) THEN "red"
        ELSE IF EtaLeq(e, time_left + PlanGreenFromYellow) THEN "green"
        ELSE "yellow"
    ELSE NoValue

\* ------------------------------------------------------ speed suggestion logic
\* variant: the red branch does not set car_speed = 0
SpeedSuggestion_NoStop(phase, dist, speed, wait, nxt, draw, mn, mx) ==
    IF phase = "red" /\ dist <= StopDistance * Scale
    THEN [suggestion |-> "Slow Down", car_speed |-> speed, waiting_at |-> nxt]
    ELSE IF phase = "green" THEN
        IF speed < mx
        THEN [suggestion |-> "Speed Up",
              car_speed |-> IF draw THEN Min(speed + SpeedStep, mx) ELSE speed,
              waiting_at |-> wait]
        ELSE IF speed > mn
        THEN [suggestion |-> "Slow Down",
              car_speed |-> IF draw THEN Max(speed - SpeedStep, mn) ELSE speed,
              waiting_at |-> wait]
        ELSE [suggestion |-> "Maintain", car_speed |-> speed, waiting_at |-> wait]
    ELSE [suggestion |-> "Maintain", car_speed |-> speed, waiting_at |-> wait]

\* variant: the green branch advises the opposite of what it does
SpeedSuggestion_SwappedAdvice(phase, dist, speed, wait, nxt, draw, mn, mx) ==
    IF phase = "red" /\ dist <= StopDistance * Scale
    THEN [suggestion |-> "Slow Down", car_speed |-> 0, waiting_at |-> nxt]
    ELSE IF phase = "green" THEN
        IF speed < mx
        THEN [suggestion |-> "Slow Down",
              car_speed |-> IF draw THEN Min(speed + SpeedStep, mx) ELSE speed,
              waiting_at |-> wait]
        ELSE IF speed > mn
        THEN [suggestion |-> "Speed Up",
              car_speed |-> IF draw THEN Max(speed - SpeedStep, mn) ELSE speed,
              waiting_at |-> wait]
        ELSE [suggestion |-> "Maintain", car_speed |-> speed, waiting_at |-> wait]
    ELSE [suggestion |-> "Maintain", car_speed |-> speed, waiting_at |-> wait]

\* variant: the stop distance is compared with a distance in tenths
SpeedSuggestion_ShortStop(phase, dist, speed, wait, nxt, draw, mn, mx) ==
    IF phase = "red" /\ dist <= StopDistance
    THEN [suggestion |-> "Slow Down", car_speed |-> 0, waiting_at |-> nxt]
    ELSE IF phase = "green" THEN
        IF speed < mx
        THEN [suggestion |-> "Speed Up",
              car_speed |-> IF draw THEN Min(speed + SpeedStep, mx) ELSE speed,
              waiting_at |-> wait]
        ELSE IF speed > mn
        THEN [suggestion |-> "Slow Down",
              car_speed |-> IF draw THEN Max(speed - SpeedStep, mn) ELSE speed,
              waiting_at |-> wait]
        ELSE [suggestion |-> "Maintain", car_speed |-> speed, waiting_at |-> wait]
    ELSE [suggestion |-> "Maintain", car_speed |-> speed, waiting_at |-> wait]

\* variant: Yellow is handled like Green
SpeedSuggestion_YellowAsGreen(phase, dist, speed, wait, nxt, draw, mn, mx) ==
    IF phase = "red" /\ dist <= StopDistance * Scale
    THEN [suggestion |-> "Slow Down", car_speed |-> 0, waiting_at |-> nxt]
    ELSE IF phase = "green" \/ phase = "yellow" THEN
        IF speed < mx
        THEN [suggestion |-> "Speed Up",
              car_speed |-> Min(speed + SpeedStep, mx),
              waiting_at |-> wait]
        ELSE IF speed > mn
        THEN [suggestion |-> "Slow Down",
              car_speed |-> Max(speed - SpeedStep, mn),
              waiting_at |-> wait]
        ELSE [suggestion |-> "Maintain", car_speed |-> speed, waiting_at |-> wait]
    ELSE [suggestion |-> "Maintain", car_speed |-> speed, waiting_at |-> wait]

\* lines 151-165; draw is the outcome of `random.random() < 0.7`
SpeedSuggestion(phase, dist, speed, wait, nxt, draw, mn, mx) ==
    IF phase = "red" /\ dist <= StopDistance * Scale
    THEN [suggestion |-> "Slow Down", car_speed |-> 0, waiting_at |-> nxt]
    ELSE IF phase = "green" THEN
        IF speed < mx
        THEN [suggestion |-> "Speed Up",
              car_speed |-> IF draw THEN Min(speed + SpeedStep, mx) ELSE speed,
              waiting_at |-> wait]
        ELSE IF speed > mn
        THEN [suggestion |-> "Slow Down",
              car_speed |-> IF draw THEN Max(speed - SpeedStep, mn) ELSE speed,
              waiting_at |-> wait]
        ELSE [suggestion |-> "Maintain", car_speed |-> speed, waiting_at |-> wait]
    ELSE [suggestion |-> "Maintain", car_speed |-> speed, waiting_at |-> wait]

\* variant: resuming clears waiting_at but leaves car_speed as it is
ResumeAfterRed_KeepSpeed(ctl, states) ==
    IF ctl.waiting_at # None /\ states[ctl.waiting_at].phase = "green"
    THEN [ctl EXCEPT !.waiting_at = None]
    ELSE ctl

\* variant: the resume test never succeeds
ResumeAfterRed_Never(ctl, states) == ctl

\* lines 168-170
ResumeAfterRed(ctl, states) ==
    IF ctl.waiting_at # None /\ states[ctl.waiting_at].phase = "green"
    THEN [ctl EXCEPT !.waiting_at = None, !.car_speed = ResumeSpeed]
    ELSE ctl

\* ------------------------------------------------------------ smoothing advice
\* variant: the counter keeps counting when the suggestion changes
SmoothAdvice_NoReset(suggestion, advice, counter) ==
    [advice |-> suggestion, counter |-> counter + 1]

\* lines 173-177
SmoothAdvice(suggestion, advice, counter) ==
    IF suggestion = advice
    THEN [advice |-> advice, counter |-> counter + 1]
    ELSE [advice |-> suggestion, counter |-> 1]

\* variant: a suggestion is surfaced on its first tick
StableSuggestion_Immediate(advice, counter) ==
    IF counter >= 1 THEN advice ELSE "Maintain"

\* line 178
StableSuggestion(advice, counter) ==
    IF counter >= StableRun THEN advice ELSE "Maintain"

\* ------------------------------------------------------------------ move car
\* variant: a stopped car creeps forward
MoveCar_Creep(x, speed) == x + Max(speed, SpeedStep)

\* lines 181-182 (tenths: car_speed * 0.1 * Scale = car_speed)
MoveCar(x, speed) == IF speed > 0 THEN x + speed ELSE x

\* ---------------------------------------------------------------- voice alert
\* variant: any later iteration passes the debounce
should_trigger_voice_AnyLater(age) ==
    IF age = NoTime THEN TRUE ELSE age >= 1

\* lines 28-34; age is (now - last_time).total_seconds(), NoTime for None
should_trigger_voice(age) ==
    IF age = NoTime THEN TRUE ELSE age >= DebounceSeconds

\* seconds since the last alert as seen by this iteration, given that the
\* previous iteration took `elapsed` seconds; only age >= 5 is ever tested,
\* so ages are kept up to DebounceSeconds
AgeNow(age, elapsed) ==
    IF age = NoTime THEN NoTime ELSE Min(age + elapsed, DebounceSeconds)

\* line 199
VoiceFires(prev, predicted, age) ==
    prev # predicted /\ should_trigger_voice(age)

\* -------------------------------------------------------------------- state
\* lines 44-46, 56-75: the script body up to the loop, in a fresh session
Startup(configs) ==
    /\ \E cfg \in configs :
         /\ sim_min_speed = cfg[1]
         /\ sim_initial_speed = cfg[2]
         /\ sim_max_speed = cfg[3]
         /\ car_speed = cfg[2]
    /\ \E sB \in InitSignal("B"), sC \in InitSignal("C"), sD \in InitSignal("D"),
          sE \in InitSignal("E"), sF \in InitSignal("F") :
         signal_states = ("B" :> sB) @@ ("C" :> sC) @@ ("D" :> sD)
                         @@ ("E" :> sE) @@ ("F" :> sF)
    /\ car_x = 0
    /\ waiting_at = None
    /\ prev_predicted_phase_obj2 = None
    /\ current_advice_obj2 = "Maintain"
    /\ advice_counter_obj2 = 0
    /\ last_voice_age = NoTime
    /\ next_signal = None
    /\ distance = 0
    /\ current_phase = NoValue
    /\ eta = Inf
    /\ predicted_phase = NoValue
    /\ stable_suggestion = NoValue
    /\ voice_fired = FALSE
    /\ voice_diff = NoTime
    /\ tick = 0
    /\ run = 1
    /\ raw_history = << >>
    /\ stable_history = << >>

Init == Startup(Configs)

\* outcomes of `random.random() < 0.7`: drawn only on lines 158 and 163
RandomDraws(phase, dist, speed, mn, mx) ==
    IF /\ ~(phase = "red" /\ dist <= StopDistance * Scale)
       /\ phase = "green"
       /\ (speed < mx \/ speed > mn)
    THEN BOOLEAN ELSE {FALSE}

\* wall-clock seconds the previous iteration took (time.sleep(1) and the
\* rendering), at most maxSeconds; read only by line 33, when a last alert
\* time exists
ElapsedSeconds(age, maxSeconds) ==
    IF age = NoTime \/ age >= DebounceSeconds THEN {1} ELSE 1..maxSeconds

\* lines 97-117: the next signal and the per-iteration locals derived from it
Locals(sigs, x, speed) ==
    LET nxt == NextSignal(x) IN
    IF nxt # None
    THEN [next_signal |-> nxt,
          distance |-> SignalX(nxt) - x,
          current_phase |-> sigs[nxt].phase,
          time_left |-> sigs[nxt].timer,
          eta |-> ComputeEta(SignalX(nxt) - x, speed)]
    ELSE [next_signal |-> None, distance |-> 0, current_phase |-> NoValue,
          time_left |-> 0, eta |-> Inf]

\* lines 119-170: predicted phase, then the vehicle's control step
Control(loc, sigs, speed, wait, draw, mn, mx) ==
    IF loc.next_signal # None
    THEN ResumeAfterRed(
             SpeedSuggestion(loc.current_phase, loc.distance, speed, wait,
                             loc.next_signal, draw, mn, mx), sigs)
    ELSE ResumeAfterRed(
             [suggestion |-> "Maintain", car_speed |-> speed,
              waiting_at |-> wait], sigs)

Predicted(loc) ==
    IF loc.next_signal # None
    THEN PredictPhase(loc.current_phase, loc.time_left, loc.eta)
    ELSE NoValue

\* lines 82-244: one iteration of the simulation loop.  Each intermediate
\* value of the iteration is bound once, in program order.  The iteration is
\* explored while fewer than maxTick iterations have run, with new Red
\* durations taken from reds and iterations of at most maxSeconds seconds.
Iteration(maxTick, reds, maxSeconds) ==
    /\ car_x <= RouteLength * Scale
    /\ tick < maxTick
    /\ \E rd \in [EnteringRed(signal_states) -> reds] :
       \E sigs \in { [l \in Labels |->
                        UpdateSignal(signal_states[l],
                                     IF l \in DOMAIN rd THEN rd[l] ELSE 0)] } :
       \E loc \in { Locals(sigs, car_x, car_speed) } :
       \E pred \in { Predicted(loc) } :
       \E draw \in RandomDraws(loc.current_phase, loc.distance, car_speed,
                               sim_min_speed, sim_max_speed) :
       \E ctl \in { Control(loc, sigs, car_speed, waiting_at, draw,
                            sim_min_speed, sim_max_speed) } :
       \E adv \in { SmoothAdvice(ctl.suggestion, current_advice_obj2,
                                 advice_counter_obj2) } :
       \E elapsed \in ElapsedSeconds(last_voice_age, maxSeconds) :
       \E age \in { AgeNow(last_voice_age, elapsed) } :
       \E fire \in { VoiceFires(prev_predicted_phase_obj2, pred, age) } :
            /\ signal_states' = sigs
            /\ next_signal' = loc.next_signal
            /\ distance' = loc.distance
            /\ current_phase' = loc.current_phase
            /\ eta' = loc.eta
            /\ predicted_phase' = pred
            /\ car_speed' = ctl.car_speed
            /\ waiting_at' = ctl.waiting_at
            /\ current_advice_obj2' = adv.advice
            /\ advice_counter_obj2' = adv.counter
            /\ stable_suggestion' = StableSuggestion(adv.advice, adv.counter)
            /\ car_x' = MoveCar(car_x, ctl.car_speed)
            /\ voice_fired' = fire
            /\ voice_diff' = age
            /\ prev_predicted_phase_obj2' =
                   IF fire THEN pred ELSE prev_predicted_phase_obj2
            /\ last_voice_age' = IF fire THEN 0 ELSE age
    /\ tick' = tick + 1
    /\ UNCHANGED << sim_min_speed, sim_initial_speed, sim_max_speed, run,
                    raw_history, stable_history >>

Tick == Iteration(MaxTick, RedDurations, MaxTickSeconds)

Next == Tick

Spec == Init /\ [][Next]_vars

\* ---------------------------------------------- the phase predictor on its own
\* Inputs of the predictor: the car is placed short of signal C with a speed
\* the loop can give it, C has any phase and remaining time, and PredictStep
\* runs lines 97-148 (next signal, distance, eta, predicted phase) once.
PredSpeeds == {10, 15, 20, 25, 60}
PredTimers == 1..RedMax
PredDistances == { 25 * k : k \in 1..MaxDistSteps }

InitPredict ==
    /\ \E ph \in Phases, t \in PredTimers :
         signal_states = ("B" :> [phase |-> "green", timer |-> GreenDuration])
                         @@ ("C" :> [phase |-> ph, timer |-> t])
                         @@ ("D" :> [phase |-> "yellow", timer |-> YellowDuration])
                         @@ ("E" :> [phase |-> "green", timer |-> 10])
                         @@ ("F" :> [phase |-> "red", timer |-> 10])
    /\ \E d \in PredDistances : car_x = SignalX("C") - d
    /\ car_speed \in PredSpeeds
    /\ sim_min_speed = 10
    /\ sim_initial_speed = 25
    /\ sim_max_speed = 60
    /\ waiting_at = None
    /\ prev_predicted_phase_obj2 = None
    /\ current_advice_obj2 = "Maintain"
    /\ advice_counter_obj2 = 0
    /\ last_voice_age = NoTime
    /\ next_signal = None
    /\ distance = 0
    /\ current_phase = NoValue
    /\ eta = Inf
    /\ predicted_phase = NoValue
    /\ stable_suggestion = NoValue
    /\ voice_fired = FALSE
    /\ voice_diff = NoTime
    /\ tick = 0
    /\ run = 1
    /\ raw_history = << >>
    /\ stable_history = << >>

PredictStep ==
    /\ tick = 0
    /\ \E loc \in { Locals(signal_states, car_x, car_speed) } :
         /\ next_signal' = loc.next_signal
         /\ distance' = loc.distance
         /\ current_phase' = loc.current_phase
         /\ eta' = loc.eta
         /\ predicted_phase' = Predicted(loc)
    /\ tick' = 1
    /\ UNCHANGED << sim_min_speed, sim_initial_speed, sim_max_speed,
                    signal_states, car_x, car_speed, waiting_at,
                    current_advice_obj2, advice_counter_obj2,
                    prev_predicted_phase_obj2, last_voice_age,
                    stable_suggestion, voice_fired, voice_diff, run,
                    raw_history, stable_history >>

NextPredict == PredictStep

SpecPredict == InitPredict /\ [][NextPredict]_vars

\* ------------------------------------------------------------- a whole run
\* The loop of line 82 followed until it exits, for the slider settings of
\* RunConfigs and new Red durations of RunRedDurations.  MaxRunTick is the
\* number of iterations explored; the loop is scheduled again after every
\* iteration (line 244 sleeps and line 82 tests again), hence the fairness.
RunConfigs == { <<15, 15, 15>>, <<15, 10, 15>>, <<60, 25, 10>> }

RunRedDurations == {RedMax}

InitRun == Startup(RunConfigs)

RunTick == Iteration(MaxRunTick, RunRedDurations, 1)

NextRun == RunTick

SpecRun == InitRun /\ [][NextRun]_vars /\ WF_vars(NextRun)

\* ------------------------------------------------ several runs in one session
\* Pressing Start makes Streamlit run the script again from the top, ending
\* a run in progress.  Lines 44-66 are executed again; lines 69-75 assign
\* their st.session_state keys only when the key is missing, which it is
\* not after the first run of the session.
StartSimulation ==
    /\ tick >= 1
    /\ run < MaxRuns
    /\ \E cfg \in Configs :
         /\ sim_min_speed' = cfg[1]
         /\ sim_initial_speed' = cfg[2]
         /\ sim_max_speed' = cfg[3]
         /\ car_speed' = cfg[2]
    /\ \E sB \in InitSignal("B"), sC \in InitSignal("C"), sD \in InitSignal("D"),
          sE \in InitSignal("E"), sF \in InitSignal("F") :
         signal_states' = ("B" :> sB) @@ ("C" :> sC) @@ ("D" :> sD)
                          @@ ("E" :> sE) @@ ("F" :> sF)
    /\ car_x' = 0
    /\ waiting_at' = None
    /\ next_signal' = None
    /\ distance' = 0
    /\ current_phase' = NoValue
    /\ eta' = Inf
    /\ predicted_phase' = NoValue
    /\ stable_suggestion' = NoValue
    /\ voice_fired' = FALSE
    /\ voice_diff' = NoTime
    /\ tick' = 0
    /\ run' = run + 1
    /\ UNCHANGED << current_advice_obj2, advice_counter_obj2,
                    prev_predicted_phase_obj2, last_voice_age,
                    raw_history, stable_history >>

SessionTick == Iteration(MaxSessionTick, RedDurations, MaxTickSeconds)

NextSession == SessionTick \/ StartSimulation

SpecSession == Init /\ [][NextSession]_vars

\* ------------------------------------------------- advice smoothing in isolation
\* Lines 172-178 applied to every sequence of raw suggestions of at most
\* MaxAdviceLen elements, from the advice state of a new session (lines 71-73).
\* raw_history and stable_history record what went in and what came out.
Suggestions == {"Maintain", "Speed Up", "Slow Down"}

InitAdvice ==
    /\ sim_min_speed = 10 /\ sim_initial_speed = 25 /\ sim_max_speed = 60
    /\ \E sB \in InitSignal("B"), sC \in InitSignal("C"),
          sD \in InitSignal("D"), sE \in InitSignal("E"),
          sF \in InitSignal("F") :
          /\ sB = [phase |-> "green", timer |-> GreenDuration]
          /\ signal_states = ("B" :> sB) @@ ("C" :> sC) @@ ("D" :> sD)
                               @@ ("E" :> sE) @@ ("F" :> sF)
    /\ car_x = 0
    /\ car_speed = sim_initial_speed
    /\ waiting_at = None
    /\ current_advice_obj2 = "Maintain"
    /\ advice_counter_obj2 = 0
    /\ prev_predicted_phase_obj2 = None
    /\ last_voice_age = NoTime
    /\ next_signal = None
    /\ distance = 0
    /\ current_phase = NoValue
    /\ eta = Inf
    /\ predicted_phase = NoValue
    /\ stable_suggestion = NoValue
    /\ voice_fired = FALSE
    /\ voice_diff = NoTime
    /\ tick = 0
    /\ run = 1
    /\ raw_history = << >>
    /\ stable_history = << >>

AdviceStep ==
    /\ Len(raw_history) < MaxAdviceLen
    /\ \E suggestion \in Suggestions :
       \E adv \in { SmoothAdvice(suggestion, current_advice_obj2,
                                 advice_counter_obj2) } :
       \E stable \in { StableSuggestion(adv.advice, adv.counter) } :
            /\ current_advice_obj2' = adv.advice
            /\ advice_counter_obj2' = adv.counter
            /\ stable_suggestion' = stable
            /\ raw_history' = Append(raw_history, suggestion)
            /\ stable_history' = Append(stable_history, stable)
    /\ tick' = tick + 1
    /\ UNCHANGED << sim_min_speed, sim_initial_speed, sim_max_speed,
                    signal_states, car_x, car_speed, waiting_at,
                    prev_predicted_phase_obj2, last_voice_age, next_signal,
                    distance, current_phase, eta, predicted_phase,
                    voice_fired, voice_diff, run >>

NextAdvice == AdviceStep

SpecAdvice == InitAdvice /\ [][NextAdvice]_vars

\* ======================================================================
\* Properties
\* ======================================================================

\* the remaining time of the signal ahead, as the last iteration saw it
TimeLeft == signal_states[next_signal].timer

\* eta - timer, over the denominator eta.den
ResidualNum == eta.num - TimeLeft * eta.den

ValidConfig ==
    sim_min_speed <= sim_initial_speed /\ sim_initial_speed <= sim_max_speed

\* the fixed cycle Red -> Green -> Yellow -> Red
Successor(ph) ==
    CASE ph = "red" -> "green" [] ph = "green" -> "yellow" [] OTHER -> "red"

\* nominal planning durations of the cycle walk
NominalDuration(ph) ==
    CASE ph = "green" -> 45 [] ph = "yellow" -> 5 [] OTHER -> 40

NominalCycle ==
    NominalDuration("green") + NominalDuration("yellow") + NominalDuration("red")

\* the phase in which a residual of rnum / den seconds, counted from the end
\* of phase ph, falls: the first following phase whose duration it fits in
RECURSIVE WalkCycle(_, _, _)
WalkCycle(ph, rnum, den) ==
    LET nxt == Successor(ph) IN
    IF rnum <= NominalDuration(nxt) * den THEN nxt
    ELSE WalkCycle(nxt, rnum - NominalDuration(nxt) * den, den)

\* C1: with minSpeed <= initialSpeed <= maxSpeed, at the end of every tick
\* car_speed is inside [minSpeed, maxSpeed], or is 0 with waiting_at set.
C1_SpeedWithinLimits ==
    (ValidConfig /\ tick >= 1) =>
        \/ (sim_min_speed <= car_speed /\ car_speed <= sim_max_speed)
        \/ (car_speed = 0 /\ waiting_at # None)

\* C2: in one tick a signal keeps its phase or moves to the next phase of
\* Red -> Green -> Yellow -> Red, and it moves only when its timer, once
\* decremented by 1, has reached 0.
C2_PhaseCycle ==
    [][ tick' = tick + 1 =>
          \A l \in Labels :
             signal_states'[l].phase # signal_states[l].phase =>
                /\ signal_states[l].timer - 1 = 0
                /\ signal_states'[l].phase = Successor(signal_states[l].phase)
      ]_vars

\* a signal has just entered Yellow (no signal is Yellow with a full timer
\* after a tick otherwise)
C2_Witness ==
    /\ tick >= 1
    /\ \E l \in Labels : /\ signal_states[l].phase = "yellow"
                         /\ signal_states[l].timer = YellowDuration

\* C3: every signal's timer is >= 0 after every tick's signal update.
C3_TimerNonNegative ==
    \A l \in Labels : signal_states[l].timer >= 0

\* a signal whose timer ran out has been reset: it is Red with a resampled
\* duration longer than any initial timer
C3_Witness ==
    /\ tick >= 1
    /\ \E l \in Labels : /\ signal_states[l].phase = "red"
                         /\ signal_states[l].timer > GreenDuration

\* C4: in a tick with a signal ahead, eta <= the signal's remaining timer
\* implies that the predicted phase is the signal's current phase.
C4_ArrivalBeforeChange ==
    (tick >= 1 /\ next_signal # None /\ EtaLeq(eta, TimeLeft)) =>
        predicted_phase = current_phase

C4_Witness ==
    /\ tick >= 1
    /\ next_signal # None
    /\ EtaLeq(eta, TimeLeft)
    /\ predicted_phase = current_phase

\* C5: for a finite eta > timer whose residual eta - timer is at most one
\* nominal cycle (90 s), the predicted phase is the phase found by walking
\* the phases after the current one (Green 45, Yellow 5, Red 40) up to the
\* first one the remaining residual fits in.
C5_WalkWithinOneCycle ==
    ( /\ tick >= 1
      /\ next_signal # None
      /\ eta.den > 0
      /\ ~EtaLeq(eta, TimeLeft)
      /\ ResidualNum <= NominalCycle * eta.den ) =>
        predicted_phase = WalkCycle(current_phase, ResidualNum, eta.den)

\* Red, timer 10, distance 100 at 20 km/h: eta 50, residual 40, Green
C5_Witness ==
    /\ tick >= 1
    /\ current_phase = "red"
    /\ TimeLeft = 10
    /\ eta = [num |-> 1000, den |-> 20]
    /\ predicted_phase = "green"

\* C6: when the finite residual eta - timer exceeds one nominal cycle
\* (90 s), the predicted phase equals the predicted phase for the residual
\* less 90 s.
C6_RepeatsCycle ==
    ( /\ tick >= 1
      /\ next_signal # None
      /\ eta.den > 0
      /\ ResidualNum > NominalCycle * eta.den ) =>
        predicted_phase =
            PredictPhase(current_phase, TimeLeft,
                         [num |-> eta.num - NominalCycle * eta.den,
                          den |-> eta.den])

\* C7: in every tick in which the signal ahead is Red after the signal update
\* and at most 40 away, the vehicle ends the tick waiting at that signal with
\* speed 0 and has not moved; it starts waiting in no other tick.
C7_StopAtRed ==
    [][ tick' = tick + 1 =>
          /\ ( /\ next_signal' # None
               /\ current_phase' = "red"
               /\ distance' <= StopDistance * Scale ) =>
                  /\ waiting_at' = next_signal'
                  /\ car_speed' = 0
                  /\ car_x' = car_x
          /\ (waiting_at' # None /\ waiting_at' # waiting_at) =>
                  /\ next_signal' = waiting_at'
                  /\ current_phase' = "red"
                  /\ distance' <= StopDistance * Scale
      ]_vars

\* the vehicle was moving (finite eta) and has stopped in this tick
C7_Witness ==
    /\ tick >= 1
    /\ waiting_at # None
    /\ waiting_at = next_signal
    /\ eta.den > 0
    /\ current_phase = "red"
    /\ distance <= StopDistance * Scale
    /\ car_speed = 0

\* C8: if the vehicle waits at L at the start of a tick and L becomes Green in
\* the tick's signal update, it ends the tick not waiting, with speed 15,
\* whatever the speed limits and the random draw; and it stops waiting in no
\* tick in which L is not Green.
C8_ResumeOnGreen ==
    [][ (tick' = tick + 1 /\ waiting_at # None) =>
          /\ ( /\ signal_states[waiting_at].phase # "green"
               /\ signal_states'[waiting_at].phase = "green" ) =>
                  (waiting_at' = None /\ car_speed' = ResumeSpeed)
          /\ waiting_at' # waiting_at =>
                  signal_states'[waiting_at].phase = "green"
      ]_vars

\* the vehicle stood still at the start of the tick (eta is unbounded) and
\* has resumed, under a minimum speed above the resume speed
C8_Witness ==
    /\ tick >= 1
    /\ next_signal # None
    /\ eta.den = 0
    /\ current_phase = "green"
    /\ waiting_at = None
    /\ car_speed = ResumeSpeed
    /\ sim_min_speed > ResumeSpeed

\* C9: at every tick boundary, waiting_at = L implies speed 0 and L Red.
C9_WaitingImpliesStoppedAtRed ==
    waiting_at # None =>
        (car_speed = 0 /\ signal_states[waiting_at].phase = "red")

\* the vehicle has been waiting for more than one tick
C9_Witness ==
    /\ tick >= 1
    /\ waiting_at # None
    /\ eta.den = 0

\* C10 as stated: the stable suggestion changes from one tick to the next
\* only in a tick whose raw suggestion equals the previous tick's.
C10_ChangesOnlyAfterRepeat ==
    [][ (tick' = tick + 1 /\ tick >= 1
         /\ stable_suggestion' # stable_suggestion) =>
            current_advice_obj2' = current_advice_obj2
      ]_vars

\* C10 amended: the stable suggestion changes to a value other than Maintain
\* only in a tick whose raw suggestion equals the previous tick's; a tick
\* whose raw suggestion differs from the previous tick's ends with the stable
\* suggestion Maintain.
C10_SurfacesOnlyAfterRepeat ==
    [][ tick' = tick + 1 =>
          /\ ( /\ stable_suggestion' # stable_suggestion
               /\ stable_suggestion' # "Maintain" ) =>
                  current_advice_obj2' = current_advice_obj2
          /\ (tick >= 1 /\ current_advice_obj2' # current_advice_obj2) =>
                  stable_suggestion' = "Maintain"
      ]_vars

\* a suggestion other than Maintain has just become stable
C10_Witness ==
    /\ tick >= 2
    /\ advice_counter_obj2 = StableRun
    /\ stable_suggestion \in {"Speed Up", "Slow Down"}

\* number of equal suggestions that end a sequence of suggestions
RECURSIVE RunLength(_)
RunLength(seq) ==
    IF Len(seq) <= 1 THEN Len(seq)
    ELSE IF seq[Len(seq)] = seq[Len(seq) - 1]
         THEN 1 + RunLength(SubSeq(seq, 1, Len(seq) - 1))
         ELSE 1

\* C11: after every tick the stable suggestion is the tick's raw suggestion
\* when that suggestion has been produced by at least 2 consecutive ticks up
\* to and including this one, and Maintain otherwise; from the advice state
\* of a new session the raw suggestions Speed Up, Speed Up, Slow Down give
\* the stable suggestions Maintain, Speed Up, Maintain.
C11_StableFollowsRunLength ==
    /\ Len(stable_history) = Len(raw_history)
    /\ \A n \in 1..Len(raw_history) :
          stable_history[n] =
             IF RunLength(SubSeq(raw_history, 1, n)) >= 2
             THEN raw_history[n] ELSE "Maintain"
    /\ raw_history # << >> =>
          /\ stable_suggestion = stable_history[Len(stable_history)]
          /\ current_advice_obj2 = raw_history[Len(raw_history)]
    /\ ( Len(raw_history) >= 3
          /\ SubSeq(raw_history, 1, 3) = << "Speed Up", "Speed Up", "Slow Down" >> )
       => SubSeq(stable_history, 1, 3) = << "Maintain", "Speed Up", "Maintain" >>

C11_Witness ==
    /\ raw_history = << "Speed Up", "Speed Up", "Slow Down" >>
    /\ stable_history = << "Maintain", "Speed Up", "Maintain" >>

\* C12: a voice alert fires in a tick only if the predicted phase differs
\* from the one recorded at the last fired alert and at least 5 seconds have
\* passed since the last fired alert (or none has fired yet); a firing tick
\* records its predicted phase and restarts the time since the last alert,
\* a silent tick records nothing.  Two alerts are therefore at least 5
\* seconds apart, whatever their predicted phases.
C12_AlertDebounced ==
    [][ tick' = tick + 1 =>
          /\ (voice_diff' = NoTime) <=> (last_voice_age = NoTime)
          /\ last_voice_age # NoTime =>
                voice_diff' >= Min(last_voice_age + 1, 5)
          /\ voice_fired' =>
                /\ predicted_phase' # prev_predicted_phase_obj2
                /\ last_voice_age = NoTime \/ voice_diff' >= 5
                /\ prev_predicted_phase_obj2' = predicted_phase'
                /\ last_voice_age' = 0
          /\ ~voice_fired' =>
                /\ prev_predicted_phase_obj2' = prev_predicted_phase_obj2
                /\ last_voice_age' = voice_diff' ]_vars

\* a second alert, fired once the debounce time had passed
C12_Witness ==
    /\ voice_fired
    /\ voice_diff # NoTime
    /\ voice_diff >= 5
    /\ last_voice_age = 0
    /\ prev_predicted_phase_obj2 = predicted_phase

\* C13: a configuration with minSpeed > maxSpeed, or with initialSpeed outside
\* [minSpeed, maxSpeed], is rejected before any tick runs: no tick has been
\* executed and the loop has computed nothing for it.
C13_InvalidConfigRejected ==
    ~ValidConfig =>
        /\ tick = 0
        /\ car_x = 0
        /\ next_signal = None
        /\ stable_suggestion = NoValue

\* C14: every run terminates: the position eventually exceeds 1100 and no
\* further tick is executed; the vehicle is never stopped forever.
C14_RunTerminates ==
    <>[](car_x > RouteLength * Scale /\ ~ENABLED RunTick)

\* a finished run that began below its speed range and took more ticks than
\* the route takes without a stop
C14_Witness ==
    /\ car_x > RouteLength * Scale
    /\ next_signal = None
    /\ sim_initial_speed < sim_min_speed
    /\ tick * ResumeSpeed > RouteLength * Scale + 100 * ResumeSpeed


\* C15: the position is 0 before the first tick, never decreases from one
\* tick to the next, and is unchanged in exactly the ticks that end with
\* speed 0.
C15_PositionMonotone ==
    [][ tick' = tick + 1 =>
          /\ tick = 0 => car_x = 0
          /\ car_x' >= car_x
          /\ (car_x' = car_x) <=> (car_speed' = 0) ]_vars

\* a tick that left the position where it was, after the car had moved
C15_Witness ==
    /\ tick >= 2
    /\ car_x > 0
    /\ car_speed = 0
    /\ car_x = SignalX(next_signal) - distance

\* C16: at the start of every simulation run, a second run of the same
\* session included, the advice state is reset: the current raw suggestion
\* is Maintain with run length 0 and no predicted phase or time of a last
\* alert is recorded, so nothing of an earlier run reaches a later one.
C16_AdviceResetAtStart ==
    tick = 0 =>
        /\ current_advice_obj2 = "Maintain"
        /\ advice_counter_obj2 = 0
        /\ prev_predicted_phase_obj2 = None
        /\ last_voice_age = NoTime

\* the tick moves a vehicle that was not waiting towards a Green signal
MovingAtGreen ==
    /\ tick' = tick + 1
    /\ waiting_at = None
    /\ next_signal' # None
    /\ current_phase' = "green"

\* C17 as stated: in every tick in which the vehicle is Moving and the
\* upcoming signal is Green, the raw suggestion is Speed Up if the speed
\* after the control step is greater than the speed before it, and Slow Down
\* otherwise.
C17_SpeedUpIffFaster ==
    [][ MovingAtGreen =>
          current_advice_obj2' = IF car_speed' > car_speed
                                 THEN "Speed Up" ELSE "Slow Down" ]_vars

\* C17, amended: in every such tick the raw suggestion is Speed Up whenever
\* the speed after the control step is greater than before it and Slow Down
\* whenever it is smaller; when the speed is unchanged the raw suggestion is
\* Speed Up if the speed is below maxSpeed, otherwise Slow Down if it is
\* above minSpeed, otherwise Maintain.
C17_AdviceMatchesSpeedChange ==
    [][ MovingAtGreen =>
          /\ car_speed' > car_speed => current_advice_obj2' = "Speed Up"
          /\ car_speed' < car_speed => current_advice_obj2' = "Slow Down"
          /\ car_speed' = car_speed =>
                current_advice_obj2' =
                   IF car_speed < sim_max_speed THEN "Speed Up"
                   ELSE IF car_speed > sim_min_speed THEN "Slow Down"
                   ELSE "Maintain" ]_vars

\* a first tick at Green that advised Speed Up and left the speed unchanged
C17_Witness ==
    /\ tick = 1
    /\ waiting_at = None
    /\ current_phase = "green"
    /\ current_advice_obj2 = "Speed Up"
    /\ car_speed = sim_initial_speed
    /\ car_speed < sim_max_speed

\* C18: in every tick with no signal ahead, or with the upcoming signal
\* Yellow, or Red at a distance above 40, the raw suggestion is Maintain and
\* the speed at the end of the tick equals the speed at its start.
C18_MaintainOtherwise ==
    [][ ( /\ tick' = tick + 1
          /\ \/ next_signal' = None
             \/ current_phase' = "yellow"
             \/ current_phase' = "red" /\ distance' > 40 * Scale )
        => /\ current_advice_obj2' = "Maintain"
           /\ car_speed' = car_speed ]_vars

\* a tick past the last signal
C18_Witness ==
    /\ tick >= 1
    /\ next_signal = None
    /\ car_x > SignalX("F")
    /\ current_advice_obj2 = "Maintain"
    /\ car_speed > 0

\* C19: computing eta never divides by zero: with a signal ahead eta is
\* infinite exactly when the speed at the time of the computation is 0 and
\* is distance / (speed * 0.1) otherwise; with no signal ahead eta is
\* infinite.
C19_EtaNeverDividesByZero ==
    [][ tick' = tick + 1 =>
          /\ eta'.den = 0 => eta' = Inf
          /\ next_signal' = None => eta' = Inf
          /\ next_signal' # None =>
                /\ (eta' = Inf) <=> (car_speed = 0)
                /\ car_speed > 0 =>
                      eta' = [num |-> distance', den |-> car_speed] ]_vars

\* eta computed for a stopped car with a signal ahead
C19_Witness ==
    /\ tick >= 2
    /\ next_signal # None
    /\ waiting_at = next_signal
    /\ current_phase = "red"
    /\ distance > 0
    /\ eta = Inf

\* C20: the vehicle never passes a signal while it is Red: in every tick in
\* which the position moves from below a signal's position to at or beyond
\* it, that signal's phase after the tick's signal update is Green or Yellow.
C20_NeverPassesRed ==
    [][ tick' = tick + 1 =>
          \A l \in Labels :
             (car_x < SignalX(l) /\ car_x' >= SignalX(l))
                => signal_states'[l].phase \in {"green", "yellow"} ]_vars

\* the tick in which a car at the highest slider speed reaches a signal
C20_Witness ==
    /\ tick >= 1
    /\ next_signal # None
    /\ car_x >= SignalX(next_signal)
    /\ car_x - car_speed < SignalX(next_signal)
    /\ car_speed = 60
    /\ signal_states[next_signal].phase \in {"green", "yellow"}

====
